---- MODULE Spec2Model ----
(***************************************************************************)
(* A model of lsst.pipe.base.graphBuilder.GraphBuilder: makeGraph and the  *)
(* three methods it calls, _extractPerDatasetTypeDimensions,               *)
(* _makeFullIODatasetTypes and _makeGraph.                                 *)
(*                                                                         *)
(* The registry (catalog) is an external collaborator.  Its query is a     *)
(* finite producer of rows that may raise LookupError, and its point       *)
(* lookup `find` returns a reference or None; both are nondeterministic.   *)
(***************************************************************************)
EXTENDS Integers, Sequences, FiniteSets, TLC

VARIABLES
    skipExisting,       \* GraphBuilder.skipExisting
    taskDatasets,       \* makeGraph: the list of _TaskDatasetTypes
    pc,                 \* position in makeGraph / _makeGraph
    perDatasetTypeDimensions, \* makeGraph: result of the reconciliation
    io,                 \* makeGraph: the five pipeline-wide sets
    catalog,            \* how the registry's query has behaved so far
    dimensionVerse,     \* _makeGraph: the rows stored locally
    qgraph,             \* _makeGraph: the QuantumGraph under construction
    initTodo,           \* _makeGraph: init dataset types not yet iterated
    findLog,            \* every registry.find call made, in order, with its answer
    taskIdx,            \* _makeGraph: index of the task being processed
    taskQuanta,         \* _makeGraph: taskQuantaInputs/Outputs of that task
    qkeyIdx,            \* _makeGraph: position of the loop over their keys
    quanta,             \* _makeGraph: the list of nodes of that task
    groupLog,           \* what each processed group led to (observed effect)
    raised,             \* the exception propagating out of makeGraph, if any
    returned            \* what makeGraph returned, if anything

vars == <<skipExisting, taskDatasets, pc, perDatasetTypeDimensions, io, catalog,
          dimensionVerse, qgraph, initTodo, findLog, taskIdx, taskQuanta,
          qkeyIdx, quanta, groupLog, raised, returned>>

-----------------------------------------------------------------------------
(* Bounds *)

\* Most rows the catalog's query yields.
MaxRows == 2

\* Most dataset-type declarations in a pipeline handed to the aggregator.
MaxDecls == 3

\* Most tasks in a pipeline handed to the dimension reconciliation.
MaxTasks == 2

-----------------------------------------------------------------------------
(* Values *)

None == "None"

\* Python's sort order of the dimension link names.
DimensionOrder == <<"detector", "instrument", "visit">>

RECURSIVE SeqToSet(_)
SeqToSet(s) == IF s = <<>> THEN {} ELSE {Head(s)} \cup SeqToSet(Tail(s))

Range(f) == {f[x] : x \in DOMAIN f}

DatasetType(n, dims) == [name |-> n, dimensions |-> dims]

Names(dsTypes) == {t.name : t \in dsTypes}

\* The exception classes and the ones deriving from GraphBuilderError.
NoError == [cls |-> "none", task |-> None, names |-> {}, refs |-> <<>>]

GraphBuilderErrorFamily ==
    {"GraphBuilderError", "OutputExistsError", "PrerequisiteMissingError"}

Error(cls, task, names, refs) ==
    [cls |-> cls, task |-> task, names |-> names, refs |-> refs]

NoGraph == [kind |-> "none"]

-----------------------------------------------------------------------------
(* _extractPerDatasetTypeDimensions *)

UnionAll(sets) == UNION sets

\* All dimensions of a task's input and output dataset types.
AllTaskDimensions(taskDs) ==
    UnionAll({t.dimensions : t \in taskDs.inputs \cup taskDs.outputs})

CommonTaskDimensions(taskDs) ==
    AllTaskDimensions(taskDs) \ taskDs.perDatasetTypeDimensions

PipelinePerDatasetTypeDimensions(tds) ==
    UnionAll({tds[i].perDatasetTypeDimensions : i \in DOMAIN tds})

\* The tasks, by index, whose common dimensions meet the pipeline-wide set.
ConflictingTasks(tds) ==
    {i \in DOMAIN tds :
        CommonTaskDimensions(tds[i]) \cap PipelinePerDatasetTypeDimensions(tds) # {}}

\* Variant: the conflict raised as a GraphBuilderError.
ConflictError_InFamily(tds, i) ==
    Error("GraphBuilderError", tds[i].taskDef.taskName,
          CommonTaskDimensions(tds[i]) \cap PipelinePerDatasetTypeDimensions(tds),
          <<>>)

\* The error the loop raises for task i: ValueError, naming the task and
\* the overlap.
ConflictError(tds, i) ==
    Error("ValueError", tds[i].taskDef.taskName,
          CommonTaskDimensions(tds[i]) \cap PipelinePerDatasetTypeDimensions(tds),
          <<>>)

\* The loop visits the tasks in order and raises at the first conflict.
ExtractOutcome(tds) ==
    IF ConflictingTasks(tds) = {}
    THEN [error |-> NoError, dims |-> PipelinePerDatasetTypeDimensions(tds)]
    ELSE LET i == CHOOSE k \in ConflictingTasks(tds) :
                      \A j \in ConflictingTasks(tds) : k <= j
         IN  [error |-> ConflictError(tds, i), dims |-> {}]

-----------------------------------------------------------------------------
(* _makeFullIODatasetTypes *)

IOTypes == <<"inputs", "outputs", "prerequisite", "initInputs", "initOutputs">>

EmptyNameSets == [c \in SeqToSet(IOTypes) |-> {}]

\* allDatasetTypes, a dict: the dataset type stored under each name.
EmptyDict == [n \in {} |-> None]

\* Variant: a name already stored keeps its dataset type.
Store_FirstSeen(dict, dsType) ==
    IF dsType.name \in DOMAIN dict THEN dict ELSE (dsType.name :> dsType) @@ dict

\* allDatasetTypes[dsType.name] = dsType
Store(dict, dsType) == (dsType.name :> dsType) @@ dict

\* for dsType in getattr(taskDs, ioType): the body, over a set.
RECURSIVE AddAll(_, _, _)
AddAll(acc, ioType, dsTypes) ==
    IF dsTypes = {} THEN acc
    ELSE LET t == CHOOSE x \in dsTypes : TRUE
         IN  AddAll([names |-> [acc.names EXCEPT ![ioType] = @ \cup {t.name}],
                     all   |-> Store(acc.all, t)],
                    ioType, dsTypes \ {t})

\* for ioType, ioSet in zip(...): over one task.
RECURSIVE AddTask(_, _, _)
AddTask(acc, taskDs, k) ==
    IF k > Len(IOTypes) THEN acc
    ELSE AddTask(AddAll(acc, IOTypes[k], taskDs[IOTypes[k]]), taskDs, k + 1)

\* for taskDs in taskDatasets
RECURSIVE Collect(_, _, _)
Collect(acc, tds, i) ==
    IF i > Len(tds) THEN acc
    ELSE Collect(AddTask(acc, tds[i], 1), tds, i + 1)

\* Variant: the produced names are not taken out.
RequiredNames_NoSubtraction(c) == c.names["inputs"]

\* required -= optional

RequiredNames(c) == c.names["inputs"] \ c.names["outputs"]

\* prerequisite -= optional
PrerequisiteNames(c) == c.names["prerequisite"] \ c.names["outputs"]

\* initInputs -= initOutputs
InitInputNames(c) == c.names["initInputs"] \ c.names["initOutputs"]

MakeFullIODatasetTypes(tds) ==
    LET c == Collect([names |-> EmptyNameSets, all |-> EmptyDict], tds, 1)
    IN  [required     |-> {c.all[n] : n \in RequiredNames(c)},
         optional     |-> {c.all[n] : n \in c.names["outputs"]},
         prerequisite |-> {c.all[n] : n \in PrerequisiteNames(c)},
         initInputs   |-> {c.all[n] : n \in InitInputNames(c)},
         initOutputs  |-> {c.all[n] : n \in c.names["initOutputs"]}]

NoIO == [required |-> {}, optional |-> {}, prerequisite |-> {},
         initInputs |-> {}, initOutputs |-> {}]

-----------------------------------------------------------------------------
(* The registry's dimensions and the rows its query yields *)

\* dimension.links(): the key columns of a dimension; visits and detectors
\* both belong to an instrument.
Links(dimensionName) == <<"instrument", dimensionName>>

RECURSIVE QLinks(_)
QLinks(dimensionNames) ==
    IF dimensionNames = <<>> THEN <<>>
    ELSE Links(Head(dimensionNames)) \o QLinks(Tail(dimensionNames))

LinkNames(dimensions) ==
    UNION {SeqToSet(Links(d)) : d \in dimensions}

Visits == {1, 2}
Detectors == {1, 2}

\* The dimension-value combinations a row can carry.
DataIds ==
    {[instrument |-> 1, visit |-> v, detector |-> d] : v \in Visits, d \in Detectors}

Restrict(dataId, cols) == [c \in cols |-> dataId[c]]

DatasetRef(dsType, dataId, id) ==
    [datasetType |-> dsType, dataId |-> dataId, id |-> id]

\* A persisted identifier; the builder only tests it against None.
Stored == "stored"

QueriedTypes(fullIO) ==
    fullIO.required \cup fullIO.optional \cup fullIO.prerequisite

\* A row: one reference per queried dataset type, bound to the row's
\* coordinates on that type's dimensions.  ids gives, for each produced
\* (optional) type, whether its dataset is already stored.
Row(dataId, fullIO, ids) ==
    [dataId |-> dataId,
     datasetRefs |->
        [t \in QueriedTypes(fullIO) |->
            DatasetRef(t, Restrict(dataId, LinkNames(t.dimensions)),
                       IF t \in fullIO.optional THEN ids[t] ELSE Stored)]]

\* The registry answers the same for the same dataset in every row.
Consistent(rows, row) ==
    \A k \in DOMAIN rows : \A t \in DOMAIN row.datasetRefs :
        rows[k].datasetRefs[t].dataId = row.datasetRefs[t].dataId
            => rows[k].datasetRefs[t].id = row.datasetRefs[t].id

\* originInfo.getInputCollections(name), in priority order.
InputCollections == <<"calib", "shared">>

-----------------------------------------------------------------------------
(* _makeGraph: grouping *)

RECURSIVE SetToSeq(_)
SetToSeq(S) ==
    IF S = {} THEN <<>>
    ELSE LET x == CHOOSE y \in S : TRUE IN <<x>> \o SetToSeq(S \ {x})

RECURSIVE Flatten(_)
Flatten(entries) ==
    IF entries = <<>> THEN <<>>
    ELSE Head(entries).refs \o Flatten(Tail(entries))

\* qkey = tuple((col, row.dataId[col]) for col in qlinks)
QKey(row, qlinks) ==
    [k \in 1..Len(qlinks) |-> <<qlinks[k], row.dataId[qlinks[k]]>>]

\* _datasetRefKey: tuple(sorted(datasetRef.dataId.items()))
DatasetRefKey(ref) ==
    LET cols == SelectSeq(DimensionOrder, LAMBDA d : d \in DOMAIN ref.dataId)
    IN  [k \in 1..Len(cols) |-> <<cols[k], ref.dataId[cols[k]]>>]

\* Variant: every reference is kept, whatever its key.
PutRef_NoDedup(refs, ref) == Append(refs, ref)

\* datasetRefs[_datasetRefKey(datasetRef)] = datasetRef, on a dict kept in
\* insertion order.
PutRef(refs, ref) ==
    IF \E i \in DOMAIN refs : DatasetRefKey(refs[i]) = DatasetRefKey(ref)
    THEN LET i == CHOOSE j \in DOMAIN refs : DatasetRefKey(refs[j]) = DatasetRefKey(ref)
         IN  [refs EXCEPT ![i] = ref]
    ELSE Append(refs, ref)

\* for dsType in taskDss.inputs (or outputs): the body, for one row.
AddRefs(entries, row) ==
    [k \in DOMAIN entries |->
        [dsType |-> entries[k].dsType,
         refs   |-> PutRef(entries[k].refs, row.datasetRefs[entries[k].dsType])]]

EmptyEntries(dsTypes) ==
    LET order == SetToSeq(dsTypes)
    IN  [k \in DOMAIN order |-> [dsType |-> order[k], refs |-> <<>>]]

\* The body of "for row in dimensionVerse", on the two dicts keyed by qkey
\* (kept together, in insertion order).
AddRow(groups, row, taskDss) ==
    LET qkey == QKey(row, QLinks(taskDss.taskDef.quantumDimensions))
    IN  IF \E i \in DOMAIN groups : groups[i].qkey = qkey
        THEN LET i == CHOOSE j \in DOMAIN groups : groups[j].qkey = qkey
             IN  [groups EXCEPT ![i] =
                    [qkey    |-> qkey,
                     inputs  |-> AddRefs(groups[i].inputs, row),
                     outputs |-> AddRefs(groups[i].outputs, row)]]
        ELSE Append(groups,
                    [qkey    |-> qkey,
                     inputs  |-> AddRefs(EmptyEntries(taskDss.inputs), row),
                     outputs |-> AddRefs(EmptyEntries(taskDss.outputs), row)])

RECURSIVE GroupRowsFrom(_, _, _, _)
GroupRowsFrom(groups, rows, k, taskDss) ==
    IF k > Len(rows) THEN groups
    ELSE GroupRowsFrom(AddRow(groups, rows[k], taskDss), rows, k + 1, taskDss)

GroupRows(rows, taskDss) == GroupRowsFrom(<<>>, rows, 1, taskDss)

-----------------------------------------------------------------------------
(* _makeGraph: the existence policy *)

AllExist(refs) == \A i \in DOMAIN refs : refs[i].id # None

AnyExist(refs) == \E i \in DOMAIN refs : refs[i].id # None

\* Variant: existing outputs are always refused.
Policy_NoSkip(skip, outputs) ==
    IF AnyExist(outputs) THEN "raise" ELSE "build"

\* Variant: only a fully existing set of outputs is refused.
Policy_AllOnly(skip, outputs) ==
    IF skip /\ AllExist(outputs) THEN "skip"
    ELSE IF AllExist(outputs) THEN "raise"
    ELSE "build"

\* Lines 404-409: what happens to a group with these output references.
Policy(skip, outputs) ==
    IF skip /\ AllExist(outputs) THEN "skip"
    ELSE IF AnyExist(outputs) THEN "raise"
    ELSE "build"

Quantum(group) ==
    [outputs |-> Flatten(group.outputs), predictedInputs |-> Flatten(group.inputs)]

EmptyGraph ==
    [kind |-> "graph", inputDatasetTypes |-> {}, outputDatasetTypes |-> {},
     initInputs |-> <<>>, initOutputs |-> <<>>, nodes |-> <<>>]

-----------------------------------------------------------------------------
(* Pipelines *)

\* Arguments: task name, quantum dimensions, inputs, outputs, initInputs,
\* initOutputs, perDatasetTypeDimensions, prerequisite.
TaskDatasetTypes(name, qdims, ins, outs, initIns, initOuts, perDims, prereq) ==
    [taskDef      |-> [taskName |-> name, quantumDimensions |-> qdims],
     inputs       |-> ins,
     outputs      |-> outs,
     initInputs   |-> initIns,
     initOutputs  |-> initOuts,
     perDatasetTypeDimensions |-> perDims,
     prerequisite |-> prereq]

Raw     == DatasetType("raw", {"visit", "detector"})
Bias    == DatasetType("bias", {"detector"})
Calexp  == DatasetType("calexp", {"visit", "detector"})
Summary == DatasetType("visitSummary", {"visit"})
Schema  == DatasetType("schema", {})
Config  == DatasetType("config", {})

\* The tasks the graph-building runs are drawn from: one quantum per visit
\* and detector, one per visit with one or with several outputs, one with
\* no outputs at all, and one that declares detector per-dataset-type.
TaskCatalog ==
    { TaskDatasetTypes("isr", <<"visit", "detector">>,
                       {Raw, Bias}, {Calexp}, {}, {Schema}, {}, {Bias}),
      TaskDatasetTypes("summarize", <<"visit">>,
                       {Calexp}, {Summary}, {Schema}, {}, {}, {}),
      TaskDatasetTypes("processVisit", <<"visit">>,
                       {Raw}, {Calexp, Summary}, {}, {Config}, {}, {}),
      TaskDatasetTypes("report", <<>>,
                       {Calexp, Summary}, {}, {}, {}, {}, {}),
      TaskDatasetTypes("mosaic", <<"visit">>,
                       {Calexp}, {Summary}, {}, {}, {"detector"}, {}) }

Pipelines ==
    {<<t>> : t \in TaskCatalog} \cup {<<t, u>> : t, u \in TaskCatalog}

-----------------------------------------------------------------------------
(* makeGraph *)

Init ==
    /\ skipExisting \in BOOLEAN
    /\ taskDatasets \in Pipelines
    /\ pc = "extract"
    /\ perDatasetTypeDimensions = {}
    /\ io = NoIO
    /\ catalog = "idle"
    /\ dimensionVerse = <<>>
    /\ qgraph = EmptyGraph
    /\ initTodo = {}
    /\ findLog = <<>>
    /\ taskIdx = 0
    /\ taskQuanta = <<>>
    /\ qkeyIdx = 0
    /\ quanta = <<>>
    /\ groupLog = <<>>
    /\ raised = NoError
    /\ returned = NoGraph

\* An exception leaves makeGraph: nothing is returned.
Raise(err) ==
    /\ raised' = err
    /\ pc' = "done"

\* Line 176.
ExtractPerDatasetTypeDimensions ==
    /\ pc = "extract"
    /\ LET out == ExtractOutcome(taskDatasets)
       IN  IF out.error = NoError
           THEN /\ perDatasetTypeDimensions' = out.dims
                /\ pc' = "aggregate"
                /\ UNCHANGED raised
           ELSE /\ Raise(out.error)
                /\ UNCHANGED perDatasetTypeDimensions
    /\ UNCHANGED <<skipExisting, taskDatasets, io, catalog, dimensionVerse, qgraph,
                   initTodo, findLog, taskIdx, taskQuanta, qkeyIdx, quanta,
                   groupLog, returned>>

\* Line 179.
MakeFullIO ==
    /\ pc = "aggregate"
    /\ io' = MakeFullIODatasetTypes(taskDatasets)
    /\ pc' = "query"
    /\ UNCHANGED <<skipExisting, taskDatasets, perDatasetTypeDimensions, catalog,
                   dimensionVerse, qgraph, initTodo, findLog, taskIdx, taskQuanta,
                   qkeyIdx, quanta, groupLog, raised, returned>>

-----------------------------------------------------------------------------
(* _makeGraph *)

\* Lines 328-332: the call returns the rows to iterate.
IssueQuery ==
    /\ pc = "query"
    /\ catalog' = "open"
    /\ pc' = "rows"
    /\ UNCHANGED <<skipExisting, taskDatasets, perDatasetTypeDimensions, io,
                   dimensionVerse, qgraph, initTodo, findLog, taskIdx, taskQuanta,
                   qkeyIdx, quanta, groupLog, raised, returned>>

\* Lines 328-332: the call itself signals the lookup failure.  It stands
\* outside the try block, so the LookupError leaves makeGraph as it is.
QueryLookupError ==
    /\ pc = "query"
    /\ catalog' = "failedAtCall"
    /\ Raise(Error("LookupError", None, {}, <<>>))
    /\ UNCHANGED <<skipExisting, taskDatasets, perDatasetTypeDimensions, io,
                   dimensionVerse, qgraph, initTodo, findLog, taskIdx, taskQuanta,
                   qkeyIdx, quanta, groupLog, returned>>

\* Lines 338-340: one more row is stored.
ConsumeRow ==
    /\ pc = "rows"
    /\ Len(dimensionVerse) < MaxRows
    /\ \E dataId \in DataIds, ids \in [io.optional -> {None, Stored}] :
          LET row == Row(dataId, io, ids)
          IN  /\ \A k \in DOMAIN dimensionVerse : dimensionVerse[k].dataId # dataId
              /\ Consistent(dimensionVerse, row)
              /\ dimensionVerse' = Append(dimensionVerse, row)
    /\ UNCHANGED <<skipExisting, taskDatasets, pc, perDatasetTypeDimensions, io,
                   catalog, qgraph, initTodo, findLog, taskIdx, taskQuanta, qkeyIdx,
                   quanta, groupLog, raised, returned>>

\* What the except clause of lines 341-342 raises.
TranslatedLookupError == Error("PrerequisiteMissingError", None, {}, <<>>)

\* Lines 338-342: the iteration signals the lookup failure.
RowLookupError ==
    /\ pc = "rows"
    /\ catalog' = "failedInIteration"
    /\ Raise(TranslatedLookupError)
    /\ UNCHANGED <<skipExisting, taskDatasets, perDatasetTypeDimensions, io,
                   dimensionVerse, qgraph, initTodo, findLog, taskIdx, taskQuanta,
                   qkeyIdx, quanta, groupLog, returned>>

\* The rows end; lines 345-347.
EndOfRows ==
    /\ pc = "rows"
    /\ catalog' = "exhausted"
    /\ qgraph' = [EmptyGraph EXCEPT
                    !.inputDatasetTypes = io.required \cup io.prerequisite,
                    !.outputDatasetTypes = io.optional]
    /\ initTodo' = io.initInputs
    /\ pc' = "initInputs"
    /\ UNCHANGED <<skipExisting, taskDatasets, perDatasetTypeDimensions, io,
                   dimensionVerse, findLog, taskIdx, taskQuanta, qkeyIdx, quanta,
                   groupLog, raised, returned>>

\* Variant: the loop goes on after a hit.
Consulted_NoBreak(present) == InputCollections

\* The collections the loop of lines 349-353 consults when the dataset is
\* present in exactly the collections of `present`: all up to the first hit.
Consulted(present) ==
    LET hits == {k \in DOMAIN InputCollections : InputCollections[k] \in present}
        last == IF hits = {} THEN Len(InputCollections)
                ELSE CHOOSE k \in hits : \A j \in hits : k <= j
    IN  SubSeq(InputCollections, 1, last)

FindCalls(dsType, present) ==
    LET cs == Consulted(present)
    IN  [k \in DOMAIN cs |->
            [collection |-> cs[k], name |-> dsType.name, found |-> cs[k] \in present]]

\* What registry.find returns for a dataset held by a collection; the
\* collection field tells the answers of different collections apart.
Found(dsType, collection) ==
    [datasetType |-> dsType, dataId |-> <<>>, id |-> Stored, collection |-> collection]

\* Lines 348-356, one iteration of the outer loop.
ResolveInitInput ==
    /\ pc = "initInputs"
    /\ \E dsType \in initTodo, present \in SUBSET SeqToSet(InputCollections) :
          LET calls == FindCalls(dsType, present)
              last  == calls[Len(calls)]
          IN  /\ findLog' = findLog \o calls
              /\ initTodo' = initTodo \ {dsType}
              /\ IF last.found
                 THEN /\ qgraph' = [qgraph EXCEPT !.initInputs =
                                        Append(@, Found(dsType, last.collection))]
                      /\ UNCHANGED <<pc, raised>>
                 ELSE /\ Raise(Error("GraphBuilderError", None, {dsType.name}, <<>>))
                      /\ UNCHANGED qgraph
    /\ UNCHANGED <<skipExisting, taskDatasets, perDatasetTypeDimensions, io, catalog,
                   dimensionVerse, taskIdx, taskQuanta, qkeyIdx, quanta, groupLog,
                   returned>>

\* DatasetRef(dsType, {})
InitOutputRef(dsType) ==
    [datasetType |-> dsType, dataId |-> <<>>, id |-> None, collection |-> None]

\* Lines 357-358, the whole loop, and the entry into the loop over tasks.
AddInitOutputs ==
    /\ pc = "initInputs"
    /\ initTodo = {}
    /\ LET order == SetToSeq(io.initOutputs)
       IN  qgraph' = [qgraph EXCEPT !.initOutputs =
                        @ \o [k \in DOMAIN order |-> InitOutputRef(order[k])]]
    /\ taskIdx' = 1
    /\ pc' = "task"
    /\ UNCHANGED <<skipExisting, taskDatasets, perDatasetTypeDimensions, io, catalog,
                   dimensionVerse, initTodo, findLog, taskQuanta, qkeyIdx, quanta,
                   groupLog, raised, returned>>

\* Lines 361-393: the rows are grouped for the next task.
GroupTaskRows ==
    /\ pc = "task"
    /\ taskIdx <= Len(taskDatasets)
    /\ taskQuanta' = GroupRows(dimensionVerse, taskDatasets[taskIdx])
    /\ qkeyIdx' = 1
    /\ quanta' = <<>>
    /\ pc' = "quanta"
    /\ UNCHANGED <<skipExisting, taskDatasets, perDatasetTypeDimensions, io, catalog,
                   dimensionVerse, qgraph, initTodo, findLog, taskIdx, groupLog,
                   raised, returned>>

\* Lines 394-420, one iteration: the group is skipped, refused or built.
MakeQuantum ==
    /\ pc = "quanta"
    /\ qkeyIdx <= Len(taskQuanta)
    /\ LET group   == taskQuanta[qkeyIdx]
           outputs == Flatten(group.outputs)
           policy  == Policy(skipExisting, outputs)
       IN  /\ CASE policy = "skip" ->
                      UNCHANGED <<quanta, raised, pc>>
                [] policy = "raise" ->
                      /\ Raise(Error("OutputExistsError",
                                     taskDatasets[taskIdx].taskDef.taskName, {}, outputs))
                      /\ UNCHANGED quanta
                [] OTHER ->
                      /\ quanta' = Append(quanta, Quantum(group))
                      /\ UNCHANGED <<raised, pc>>
           /\ groupLog' = Append(groupLog,
                 [task     |-> taskIdx,
                  qkey     |-> group.qkey,
                  outputs  |-> outputs,
                  produced |-> SubSeq(quanta', Len(quanta) + 1, Len(quanta')),
                  raised   |-> raised'.cls])
    /\ qkeyIdx' = qkeyIdx + 1
    /\ UNCHANGED <<skipExisting, taskDatasets, perDatasetTypeDimensions, io, catalog,
                   dimensionVerse, qgraph, initTodo, findLog, taskIdx, taskQuanta,
                   returned>>

TaskNode(taskDef, qs) == [taskDef |-> taskDef, quanta |-> qs]

\* Variant: a task left without quanta gets no node.
AppendTaskNode_DropEmpty ==
    /\ pc = "quanta"
    /\ qkeyIdx > Len(taskQuanta)
    /\ qgraph' = IF quanta = <<>> THEN qgraph
                 ELSE [qgraph EXCEPT !.nodes =
                          Append(@, TaskNode(taskDatasets[taskIdx].taskDef, quanta))]
    /\ taskIdx' = taskIdx + 1
    /\ pc' = "task"
    /\ UNCHANGED <<skipExisting, taskDatasets, perDatasetTypeDimensions, io, catalog,
                   dimensionVerse, initTodo, findLog, taskQuanta, qkeyIdx, quanta,
                   groupLog, raised, returned>>

\* Line 422.
AppendTaskNode ==
    /\ pc = "quanta"
    /\ qkeyIdx > Len(taskQuanta)
    /\ qgraph' = [qgraph EXCEPT !.nodes =
                    Append(@, TaskNode(taskDatasets[taskIdx].taskDef, quanta))]
    /\ taskIdx' = taskIdx + 1
    /\ pc' = "task"
    /\ UNCHANGED <<skipExisting, taskDatasets, perDatasetTypeDimensions, io, catalog,
                   dimensionVerse, initTodo, findLog, taskQuanta, qkeyIdx, quanta,
                   groupLog, raised, returned>>

\* Line 424.
ReturnGraph ==
    /\ pc = "task"
    /\ taskIdx > Len(taskDatasets)
    /\ returned' = qgraph
    /\ pc' = "done"
    /\ UNCHANGED <<skipExisting, taskDatasets, perDatasetTypeDimensions, io, catalog,
                   dimensionVerse, qgraph, initTodo, findLog, taskIdx, taskQuanta,
                   qkeyIdx, quanta, groupLog, raised>>

Next ==
    \/ ExtractPerDatasetTypeDimensions
    \/ MakeFullIO
    \/ IssueQuery
    \/ QueryLookupError
    \/ ConsumeRow
    \/ RowLookupError
    \/ EndOfRows
    \/ ResolveInitInput
    \/ AddInitOutputs
    \/ GroupTaskRows
    \/ MakeQuantum
    \/ AppendTaskNode
    \/ ReturnGraph

Spec == Init /\ [][Next]_vars

-----------------------------------------------------------------------------
(* _makeFullIODatasetTypes on its own, over every small pipeline *)

TaskLabels == <<"first", "second", "third">>

\* Instances of dataset types: two names, each declared with either of two
\* dimension sets, so that same-named instances can differ.
IOVariants ==
    {DatasetType(n, d) : n \in {"raw", "calexp"},
                         d \in {{"visit"}, {"visit", "detector"}}}

\* One declaration: a task (by position) lists a dataset type in one of its
\* categories; a prerequisite is an input that is also listed as such
\* (makeGraph, line 165).  Within one category of one task a name is
\* declared at most once, so a pipeline fills some of these cells.
Cells ==
    SetToSeq([task : {1, 2},
              slot : {"inputs", "outputs", "initInputs", "initOutputs"},
              name : {"raw", "calexp"}])

CellDecls(cell) ==
    {[task |-> cell.task, ioType |-> c, type |-> t] :
        c \in (IF cell.slot = "inputs" THEN {"inputs", "prerequisite"} ELSE {cell.slot}),
        t \in {v \in IOVariants : v.name = cell.name}}

\* Every declaration, numbered.
AllDecls == SetToSeq(UNION {CellDecls(Cells[c]) : c \in DOMAIN Cells})

CellNumbers(c) == {n \in DOMAIN AllDecls : AllDecls[n] \in CellDecls(Cells[c])}

\* The sets of at most k declarations (by number) over the cells from the
\* c-th on.
RECURSIVE DeclSets(_, _)
DeclSets(c, k) ==
    IF c > Len(Cells) \/ k = 0 THEN {{}}
    ELSE LET without == DeclSets(c + 1, k)
             with    == DeclSets(c + 1, k - 1)
         IN  without \cup {S \cup {n} : S \in with, n \in CellNumbers(c)}

Declared(S, i, ioTypes) ==
    {AllDecls[n].type :
        n \in {m \in S : AllDecls[m].task = i /\ AllDecls[m].ioType \in ioTypes}}

IOPipeline(S) ==
    [i \in {1, 2} |->
        TaskDatasetTypes(TaskLabels[i], <<>>,
                         Declared(S, i, {"inputs", "prerequisite"}),
                         Declared(S, i, {"outputs"}),
                         Declared(S, i, {"initInputs"}),
                         Declared(S, i, {"initOutputs"}),
                         {},
                         Declared(S, i, {"prerequisite"}))]

Idle ==
    /\ skipExisting = TRUE
    /\ perDatasetTypeDimensions = {}
    /\ io = NoIO
    /\ catalog = "idle"
    /\ dimensionVerse = <<>>
    /\ qgraph = EmptyGraph
    /\ initTodo = {}
    /\ findLog = <<>>
    /\ taskIdx = 0
    /\ taskQuanta = <<>>
    /\ qkeyIdx = 0
    /\ quanta = <<>>
    /\ groupLog = <<>>
    /\ raised = NoError
    /\ returned = NoGraph

InitIO ==
    /\ \E S \in DeclSets(1, MaxDecls) : taskDatasets = IOPipeline(S)
    /\ pc = "aggregate"
    /\ Idle

NextIO == MakeFullIO

SpecIO == InitIO /\ [][NextIO]_vars

-----------------------------------------------------------------------------
(* _extractPerDatasetTypeDimensions on its own, over every small pipeline *)

DimensionNames == {"visit", "detector"}

\* A task with one input and one output dataset type of any dimensions and
\* any per-dataset-type declaration.
DimTask(label, shape) ==
    TaskDatasetTypes(label, <<>>, {DatasetType("in", shape.din)},
                     {DatasetType("out", shape.dout)}, {}, {}, shape.per, {})

DimShapes ==
    [din : SUBSET DimensionNames, dout : SUBSET DimensionNames,
     per : SUBSET DimensionNames]

InitDims ==
    /\ \E n \in 1..MaxTasks : \E shapes \in [1..n -> DimShapes] :
          taskDatasets = [i \in 1..n |-> DimTask(TaskLabels[i], shapes[i])]
    /\ pc = "extract"
    /\ Idle

NextDims == ExtractPerDatasetTypeDimensions

SpecDims == InitDims /\ [][NextDims]_vars

-----------------------------------------------------------------------------
(* Properties of the aggregation (SpecIO) *)

\* The five pipeline-wide sets have been computed.
Aggregated == pc \notin {"extract", "aggregate"} /\ raised.cls # "ValueError"

ReturnedCategories ==
    {io.required, io.optional, io.prerequisite, io.initInputs, io.initOutputs}

\* C1: in the sets returned by _makeFullIODatasetTypes, required and
\* optional share no dataset type name, prerequisite and optional share
\* none, initInputs and initOutputs share none; a name that is one task's
\* output and a task's input is in optional and in neither required nor
\* prerequisite.
C1_CategoriesDisjoint ==
    Aggregated =>
        /\ Names(io.required) \cap Names(io.optional) = {}
        /\ Names(io.prerequisite) \cap Names(io.optional) = {}
        /\ Names(io.initInputs) \cap Names(io.initOutputs) = {}
        /\ \A i, j \in DOMAIN taskDatasets :
              \A n \in Names(taskDatasets[i].outputs) \cap Names(taskDatasets[j].inputs) :
                  /\ n \in Names(io.optional)
                  /\ n \notin Names(io.required)
                  /\ n \notin Names(io.prerequisite)

\* C1's case: one task's output is the other task's input, and the
\* pipeline still has a required dataset type of another name.
C1_Witness ==
    /\ Aggregated
    /\ \E i, j \in DOMAIN taskDatasets :
          /\ i # j
          /\ Names(taskDatasets[i].outputs) \cap Names(taskDatasets[j].inputs) # {}
    /\ io.required # {}

\* Where a name is declared: (task, category) positions, in the order the
\* aggregation visits them.
Occurrences(n) ==
    {<<i, k>> \in (DOMAIN taskDatasets) \X (DOMAIN IOTypes) :
        n \in Names(taskDatasets[i][IOTypes[k]])}

Earlier(p, q) == p[1] < q[1] \/ (p[1] = q[1] /\ p[2] <= q[2])

InstanceAt(p, n) == CHOOSE t \in taskDatasets[p[1]][IOTypes[p[2]]] : t.name = n

FirstDeclared(n) ==
    InstanceAt(CHOOSE p \in Occurrences(n) : \A q \in Occurrences(n) : Earlier(p, q), n)

LastDeclared(n) ==
    InstanceAt(CHOOSE p \in Occurrences(n) : \A q \in Occurrences(n) : Earlier(q, p), n)

\* C9 as stated: every returned category holds, for each of its names, the
\* instance declared first in pipeline order (first-seen wins).
C9_FirstSeenWins ==
    Aggregated =>
        \A S \in ReturnedCategories : \A t \in S : t = FirstDeclared(t.name)

\* C9, amended: every returned category holds, for each of its names, one
\* and the same instance, and it is the one declared last in the order of
\* the iteration (tasks in pipeline order, within a task inputs, outputs,
\* prerequisite, initInputs, initOutputs): last-seen wins.
C9_LastSeenWins ==
    Aggregated =>
        /\ \A S \in ReturnedCategories : \A t \in S : t = LastDeclared(t.name)
        /\ \A S, T \in ReturnedCategories : \A t \in S, u \in T :
              t.name = u.name => t = u

\* C9's case: a name declared with two different instances is returned.
C9_Witness ==
    /\ Aggregated
    /\ \E S \in ReturnedCategories : \E t \in S :
          FirstDeclared(t.name) # LastDeclared(t.name)

-----------------------------------------------------------------------------
(* Properties of the dimension reconciliation (SpecDims) *)

\* The dimensions task i uses in its input or output dataset types without
\* declaring them per-dataset-type, although some task declares them so.
Undeclared(i) ==
    {d \in DimensionNames :
        /\ \E t \in taskDatasets[i].inputs \cup taskDatasets[i].outputs :
              d \in t.dimensions
        /\ d \notin taskDatasets[i].perDatasetTypeDimensions
        /\ \E j \in DOMAIN taskDatasets : d \in taskDatasets[j].perDatasetTypeDimensions}

Offending == {i \in DOMAIN taskDatasets : Undeclared(i) # {}}

Reconciled == pc # "extract"

NamesOffender ==
    \E i \in Offending :
        /\ raised.task = taskDatasets[i].taskDef.taskName
        /\ raised.names = Undeclared(i)

NoConflictOutcome ==
    /\ raised = NoError
    /\ perDatasetTypeDimensions =
          UNION {taskDatasets[i].perDatasetTypeDimensions : i \in DOMAIN taskDatasets}

\* C5 as stated: a conflict makes makeGraph fail with an error of the
\* GraphBuilderError family that names the offending task and the
\* overlapping dimensions; without a conflict nothing is raised and the
\* union of the per-dataset-type dimensions is returned.
C5_ConflictInFamily ==
    Reconciled =>
        IF Offending # {}
        THEN /\ pc = "done"
             /\ returned = NoGraph
             /\ raised.cls \in GraphBuilderErrorFamily
             /\ NamesOffender
        ELSE NoConflictOutcome

\* C5, amended: a conflict makes makeGraph fail with a ValueError, which is
\* outside the GraphBuilderError family, naming the offending task and the
\* overlapping dimensions; without a conflict nothing is raised and the
\* union of the per-dataset-type dimensions is returned.
C5_ConflictValueError ==
    Reconciled =>
        IF Offending # {}
        THEN /\ pc = "done"
             /\ returned = NoGraph
             /\ raised.cls = "ValueError"
             /\ raised.cls \notin GraphBuilderErrorFamily
             /\ NamesOffender
        ELSE NoConflictOutcome

\* C5's case: two tasks, the second one offending on both dimensions.
C5_Witness ==
    /\ pc = "done"
    /\ raised.cls = "ValueError"
    /\ Len(taskDatasets) > 1
    /\ raised.task = taskDatasets[Len(taskDatasets)].taskDef.taskName
    /\ raised.names = DimensionNames

-----------------------------------------------------------------------------
(* Properties of _makeGraph (Spec) *)

EveryOutputExists(refs) == \A k \in DOMAIN refs : refs[k].id # None

SomeOutputExists(refs) == \E k \in DOMAIN refs : refs[k].id # None

TaskName(i) == taskDatasets[i].taskDef.taskName

\* The groups of task i that the existence policy lets through.
NotDropped(i) ==
    {k \in DOMAIN groupLog :
        /\ groupLog[k].task = i
        /\ ~(skipExisting /\ EveryOutputExists(groupLog[k].outputs))}

\* C2: with skipExisting, a group all of whose collected output references
\* exist yields no work unit and no error, and the build goes on: if that
\* group was the last one processed, the build ends with a graph, and the
\* graph holds no work unit for it.
C2_AllExistSkipped ==
    /\ \A k \in DOMAIN groupLog :
          (skipExisting /\ EveryOutputExists(groupLog[k].outputs)) =>
              /\ groupLog[k].produced = <<>>
              /\ groupLog[k].raised = "none"
              /\ (k = Len(groupLog) /\ pc = "done") => returned # NoGraph
    /\ returned # NoGraph =>
          \A i \in DOMAIN returned.nodes :
              Len(returned.nodes[i].quanta) = Cardinality(NotDropped(i))

\* C2's case: a group whose outputs all exist was skipped, a later group
\* was built, and the graph was returned.
C2_Witness ==
    /\ skipExisting
    /\ returned # NoGraph
    /\ \E k, l \in DOMAIN groupLog :
          /\ k < l
          /\ groupLog[k].outputs # <<>>
          /\ EveryOutputExists(groupLog[k].outputs)
          /\ groupLog[l].produced # <<>>

\* The build ended with OutputExistsError for this group, and no graph.
Refused(e) ==
    /\ e.raised = "OutputExistsError"
    /\ raised.cls = "OutputExistsError"
    /\ raised.task = TaskName(e.task)
    /\ raised.refs = e.outputs
    /\ pc = "done"
    /\ returned = NoGraph

\* C3: a group with one or more but not all of its output references
\* existing is refused with OutputExistsError whatever skipExisting is; so
\* is a group whose output references (there being some) all exist when
\* skipExisting is false; a group none of whose output references exist
\* never raises it.  No graph is returned once it is raised.
C3_OutputExistsError ==
    \A k \in DOMAIN groupLog :
        LET e == groupLog[k]
        IN  /\ (SomeOutputExists(e.outputs) /\ ~EveryOutputExists(e.outputs))
                  => Refused(e)
            /\ (e.outputs # <<>> /\ EveryOutputExists(e.outputs) /\ ~skipExisting)
                  => Refused(e)
            /\ ~SomeOutputExists(e.outputs) => e.raised # "OutputExistsError"

\* C3's case: skipExisting is on, and a group with some but not all of its
\* outputs existing was refused after an earlier group had been built.
C3_Witness ==
    /\ skipExisting
    /\ Len(groupLog) > 1
    /\ groupLog[1].produced # <<>>
    /\ LET e == groupLog[Len(groupLog)]
       IN  /\ SomeOutputExists(e.outputs)
           /\ ~EveryOutputExists(e.outputs)
           /\ Refused(e)

\* The quantum link columns of task i, and a row's coordinates on them.
LinkColumns(i) == SeqToSet(QLinks(taskDatasets[i].taskDef.quantumDimensions))

Projection(row, i) == {<<c, row.dataId[c]>> : c \in LinkColumns(i)}

\* The rows that belong to the group of a log entry.
RowsOf(e) ==
    {k \in DOMAIN dimensionVerse :
        Projection(dimensionVerse[k], e.task) = SeqToSet(e.qkey)}

Identity(ref) == <<ref.datasetType.name, ref.dataId>>

\* C4: within one task, the groups are the classes of rows that agree on
\* the task's quantum link columns: every row is in exactly one group of
\* the task being processed, and no two groups of a task have the same
\* key.  The predicted inputs of a group's work unit are exactly the
\* references its rows carry for the task's input dataset types, each
\* (dataset type, coordinates) identity once.
C4_GroupingAndInputs ==
    /\ pc = "quanta" =>
          /\ \A k \in DOMAIN dimensionVerse :
                Cardinality({g \in DOMAIN taskQuanta :
                    SeqToSet(taskQuanta[g].qkey) = Projection(dimensionVerse[k], taskIdx)}) = 1
          /\ \A g \in DOMAIN taskQuanta :
                \E k \in DOMAIN dimensionVerse :
                    SeqToSet(taskQuanta[g].qkey) = Projection(dimensionVerse[k], taskIdx)
    /\ \A k, l \in DOMAIN groupLog :
          (k # l /\ groupLog[k].task = groupLog[l].task)
              => SeqToSet(groupLog[k].qkey) # SeqToSet(groupLog[l].qkey)
    /\ \A k \in DOMAIN groupLog :
          LET e == groupLog[k]
          IN  e.produced # <<>> =>
                LET inputs == e.produced[1].predictedInputs
                IN  /\ Len(e.produced) = 1
                    /\ Range(inputs) =
                          {dimensionVerse[r].datasetRefs[t] :
                              r \in RowsOf(e), t \in taskDatasets[e.task].inputs}
                    /\ \A a, b \in DOMAIN inputs :
                          Identity(inputs[a]) = Identity(inputs[b]) => a = b

\* C4's case: a work unit built from two rows, with a reference both rows
\* carry kept once and references that differ between them both kept.
C4_Witness ==
    \E k \in DOMAIN groupLog :
        LET e == groupLog[k]
            types == taskDatasets[e.task].inputs
        IN  /\ e.produced # <<>>
            /\ Cardinality(RowsOf(e)) = 2
            /\ Len(e.produced[1].predictedInputs) > Cardinality(types)
            /\ Len(e.produced[1].predictedInputs) < 2 * Cardinality(types)

\* C6: a lookup failure signalled by the catalog, when the query is issued
\* or while a row is consumed, ends makeGraph with PrerequisiteMissingError
\* and without a graph.
C6_LookupFailureTranslated ==
    catalog \in {"failedAtCall", "failedInIteration"} =>
        /\ pc = "done"
        /\ raised.cls = "PrerequisiteMissingError"
        /\ returned = NoGraph

\* C7: a returned graph holds exactly one TaskNode per task, in pipeline
\* order, with an empty work-unit list for every task when the catalog
\* yielded no rows; once an error is raised nothing is returned.
C7_OneNodePerTask ==
    /\ returned # NoGraph =>
          /\ raised = NoError
          /\ pc = "done"
          /\ Len(returned.nodes) = Len(taskDatasets)
          /\ \A i \in DOMAIN taskDatasets :
                /\ returned.nodes[i].taskDef = taskDatasets[i].taskDef
                /\ dimensionVerse = <<>> => returned.nodes[i].quanta = <<>>
    /\ raised # NoError => (returned = NoGraph /\ pc = "done")
    /\ pc = "done" => (returned # NoGraph \/ raised # NoError)

\* C7's case: a graph of two tasks over some rows, the first task left
\* without work units, the second with some.
C7_Witness ==
    /\ returned # NoGraph
    /\ dimensionVerse # <<>>
    /\ Len(returned.nodes) = 2
    /\ returned.nodes[1].quanta = <<>>
    /\ returned.nodes[2].quanta # <<>>

\* The find calls made for a dataset type name, in order.
CallsFor(n) == SelectSeq(findLog, LAMBDA c : c.name = n)

\* The init-input dataset types the loop has been through.
Resolved == IF catalog = "exhausted" THEN io.initInputs \ initTodo ELSE {}

InitInputRefs(t) ==
    {k \in DOMAIN qgraph.initInputs : qgraph.initInputs[k].datasetType = t}

InitOutputsAdded == pc \in {"task", "quanta"} \/ returned # NoGraph

\* C8: for each init-input dataset type the collections are consulted in
\* priority order up to the first that has it and no further, and exactly
\* one reference, that collection's, is recorded; if none has it the build
\* fails with GraphBuilderError naming the dataset type.  For each
\* init-output dataset type exactly one reference, with empty coordinates,
\* is recorded.
C8_InitDatasets ==
    /\ \A t \in Resolved :
          LET calls == CallsFor(t.name)
              n     == Len(calls)
          IN  /\ n \in 1..Len(InputCollections)
              /\ \A k \in 1..n : calls[k].collection = InputCollections[k]
              /\ \A k \in 1..(n - 1) : ~calls[k].found
              /\ IF calls[n].found
                 THEN /\ Cardinality(InitInputRefs(t)) = 1
                      /\ \A k \in InitInputRefs(t) :
                            /\ qgraph.initInputs[k].collection = calls[n].collection
                            /\ qgraph.initInputs[k].id # None
                 ELSE /\ n = Len(InputCollections)
                      /\ InitInputRefs(t) = {}
                      /\ raised.cls = "GraphBuilderError"
                      /\ raised.names = {t.name}
                      /\ pc = "done"
                      /\ returned = NoGraph
    /\ \A k \in DOMAIN qgraph.initInputs : qgraph.initInputs[k].datasetType \in Resolved
    /\ \A k \in DOMAIN findLog : findLog[k].name \in Names(Resolved)
    /\ InitOutputsAdded =>
          /\ Len(qgraph.initOutputs) = Cardinality(io.initOutputs)
          /\ \A t \in io.initOutputs :
                \E k \in DOMAIN qgraph.initOutputs :
                    /\ qgraph.initOutputs[k].datasetType = t
                    /\ qgraph.initOutputs[k].dataId = <<>>

\* C8's case: the first collection lacks the init-input, the second has it,
\* and the returned graph also holds an init-output reference.
C8_Witness ==
    /\ returned # NoGraph
    /\ returned.initOutputs # <<>>
    /\ \E t \in io.initInputs :
          /\ Len(CallsFor(t.name)) = 2
          /\ CallsFor(t.name)[2].found
          /\ \E k \in DOMAIN returned.initInputs :
                returned.initInputs[k].collection = InputCollections[2]

\* C10: a group none of whose output references exist (a task without
\* output dataset types included) gets exactly one work unit, whatever
\* skipExisting is, with all its outputs and all its inputs; a group left
\* without work unit and without error is one with skipExisting whose
\* outputs all exist.
C10_OneQuantumPerFreshGroup ==
    \A k \in DOMAIN groupLog :
        LET e == groupLog[k]
        IN  /\ ~SomeOutputExists(e.outputs) =>
                  /\ Len(e.produced) = 1
                  /\ e.produced[1].outputs = e.outputs
                  /\ Range(e.produced[1].predictedInputs) =
                        {dimensionVerse[r].datasetRefs[t] :
                            r \in RowsOf(e), t \in taskDatasets[e.task].inputs}
            /\ (e.produced = <<>> /\ e.raised = "none") =>
                  (skipExisting /\ EveryOutputExists(e.outputs))

====
